---- MODULE Spec2Model ----
(***************************************************************************)
(* Model of the shadowsocks TCP relay server:                              *)
(*   relay/tcprelay/server.rs   run, the per-instance accept loops and     *)
(*                              handle_client                              *)
(*   dns_resolver/trust_dns_resolver.rs   resolve                          *)
(*   manager/datagram.rs        ManagerDatagram: bind, connect, send_to,   *)
(*                              send_to_manager                            *)
(* together with the helpers they call (lookup_then!, Address::read_from,  *)
(* CryptoStream, ignore_until_end, copy_s2p / copy_p2s).                   *)
(***************************************************************************)
EXTENDS Integers, Sequences, FiniteSets, TLC

(***************************************************************************)
(* Bounds of the model                                                     *)
(***************************************************************************)
\* number of client sockets the listeners hand out in one run
MaxConn == 2
\* number of addresses the multi-address host name resolves to
MaxAddrs == 2
\* number of things the outside world does in one run: a client connecting,
\* an accept failing, a peer sending or closing
MaxEvents == 4
\* number of ManagerDatagram sockets created in one run
MaxSock == 2

(***************************************************************************)
(* Configuration (Context / ServerConfig)                                  *)
(***************************************************************************)
\* context.config().server: the ServerInstances, in configuration order
NumInst == 2
Inst == 1..NumInst
\* the pre-shared key of instance i
Key(i) == i
\* a key that no instance uses with the given one
OtherKey(k) == (k % NumInst) + 1

\* socket addresses and target addresses
NoAddr == [kind |-> "none", ip |-> <<>>, host |-> <<>>, port |-> 0]
SockAddr(ip, port) == [kind |-> "ip", ip |-> ip, host |-> <<>>, port |-> port]
DomainAddr(host, port) == [kind |-> "domain", ip |-> <<>>, host |-> host, port |-> port]

PoolIp(i) == <<10, 0, 0, i>>
BlockedIp == <<10, 0, 0, 99>>
HostMulti == <<7>>
HostEmpty == <<8>>
HostErr == <<9>>

\* svr_cfg.external_addr() of instance i: every instance has its own port
ExternalAddr(i) == SockAddr(<<0, 0, 0, 0>>, 8000 + i)

\* the peers that connect; the inbound ACL blocks the second one
PeerGood == SockAddr(<<192, 168, 0, 1>>, 4000)
PeerBad == SockAddr(<<192, 168, 0, 2>>, 4000)
Peers == {PeerGood, PeerBad}

\* context.check_client_blocked(&peer_addr)
ClientBlocked(peer) == peer = PeerBad

\* context.check_outbound_blocked(&remote_addr)
OutboundBlocked(addr) == addr.kind = "ip" /\ addr.ip = BlockedIp

(***************************************************************************)
(* Results and errors (io::Result<()>)                                     *)
(***************************************************************************)
Running == [kind |-> "running", at |-> NoAddr]
Ok == [kind |-> "Ok", at |-> NoAddr]
Err(kind, at) == [kind |-> kind, at |-> at]
IsErr(r) == r.kind \notin {"running", "Ok"}

(***************************************************************************)
(* Sequences                                                               *)
(***************************************************************************)
IsPrefix(s, t) == Len(s) <= Len(t) /\ SubSeq(t, 1, Len(s)) = s
Drop(s, n) == SubSeq(s, n + 1, Len(s))
Take(s, n) == SubSeq(s, 1, IF n < Len(s) THEN n ELSE Len(s))

RECURSIVE Flatten(_)
Flatten(ss) == IF ss = <<>> THEN <<>> ELSE Head(ss) \o Flatten(Tail(ss))

(***************************************************************************)
(* Cipher framing (CryptoStream): the wire carries the salt and then AEAD  *)
(* chunks; a chunk opens only under the key that sealed it.                *)
(***************************************************************************)
Salt(k) == [kind |-> "salt", key |-> k, body |-> <<>>]
EncByte(k, b) == (b + k) % 256
DecByte(k, b) == (b + 256 - k) % 256
Seal(k, plain) == [kind |-> "chunk", key |-> k, body |-> [j \in 1..Len(plain) |-> EncByte(k, plain[j])]]
CanOpen(k, item) == item.kind = "chunk" /\ item.key = k
Open(k, item) == [j \in 1..Len(item.body) |-> DecByte(k, item.body[j])]

\* the bytes an item takes on the wire: the salt, or the body of a chunk with
\* its length and tag
WireLen(item) == IF item.kind = "salt" THEN 2 ELSE Len(item.body) + 1

RECURSIVE WireSize(_)
WireSize(items) == IF items = <<>> THEN 0 ELSE WireLen(Head(items)) + WireSize(Tail(items))

(***************************************************************************)
(* Address frame: TYPE, ADDRESS, PORT (16-bit big-endian)                  *)
(***************************************************************************)
EncodeAddress(a) ==
    IF a.kind = "ip"
    THEN <<1>> \o a.ip \o <<a.port \div 256, a.port % 256>>
    ELSE <<3, Len(a.host)>> \o a.host \o <<a.port \div 256, a.port % 256>>

PortOf(buf, at) == buf[at] * 256 + buf[at + 1]

\* Address::read_from over the bytes decrypted so far:
\* st = "more" (frame incomplete), "bad" (unknown type) or "ok" (addr, rest)
ReadAddress(buf) ==
    IF Len(buf) = 0 THEN [st |-> "more", addr |-> NoAddr, rest |-> <<>>]
    ELSE IF buf[1] = 1 THEN
        IF Len(buf) < 7 THEN [st |-> "more", addr |-> NoAddr, rest |-> <<>>]
        ELSE [st |-> "ok", addr |-> SockAddr(SubSeq(buf, 2, 5), PortOf(buf, 6)), rest |-> Drop(buf, 7)]
    ELSE IF buf[1] = 4 THEN
        IF Len(buf) < 19 THEN [st |-> "more", addr |-> NoAddr, rest |-> <<>>]
        ELSE [st |-> "ok", addr |-> SockAddr(SubSeq(buf, 2, 17), PortOf(buf, 18)), rest |-> Drop(buf, 19)]
    ELSE IF buf[1] = 3 THEN
        IF Len(buf) < 2 \/ Len(buf) < 2 + buf[2] + 2
        THEN [st |-> "more", addr |-> NoAddr, rest |-> <<>>]
        ELSE [st |-> "ok",
              addr |-> DomainAddr(SubSeq(buf, 3, 2 + buf[2]), PortOf(buf, 3 + buf[2])),
              rest |-> Drop(buf, 2 + buf[2] + 2)]
    ELSE [st |-> "bad", addr |-> NoAddr, rest |-> <<>>]

(***************************************************************************)
(* Name resolution                                                         *)
(***************************************************************************)
\* what the resolver backend (lookup_ip) answers for a host name: its IPs in
\* the backend's order, or a failure
DnsAnswer(host) ==
    IF host = HostMulti THEN [ok |-> TRUE, ips |-> [j \in 1..MaxAddrs |-> PoolIp(MaxAddrs + 1 - j)]]
    ELSE IF host = HostEmpty THEN [ok |-> TRUE, ips |-> <<>>]
    ELSE [ok |-> FALSE, ips |-> <<>>]

\* tokio_resolve(context, addr, port): the platform resolver. It knows the
\* same hosts, lists the addresses in its own order, and has no empty answer
TokioResolve(host, port) ==
    IF host = HostMulti
    THEN [ok |-> TRUE, addrs |-> [j \in 1..MaxAddrs |-> SockAddr(PoolIp(j), port)], err |-> Ok]
    ELSE [ok |-> FALSE, addrs |-> <<>>, err |-> Err("resolve", DomainAddr(host, port))]

\* the Some(resolver) arm of resolve: the backend's IPs, each paired with the port
Resolve(host, port) ==
    LET ans == DnsAnswer(host) IN
    IF ans.ok
    THEN [ok |-> TRUE, addrs |-> [j \in 1..Len(ans.ips) |-> SockAddr(ans.ips[j], port)],
          err |-> Ok]
    ELSE [ok |-> FALSE, addrs |-> <<>>, err |-> Err("resolve", DomainAddr(host, port))]

\* a variant of resolve that never looks at the Context's resolver
ResolveInPlatformOnly(explicit, host, port) == TokioResolve(host, port)

\* resolve(context, addr, port): match context.dns_resolver()
ResolveIn(explicit, host, port) ==
    IF explicit THEN Resolve(host, port) ELSE TokioResolve(host, port)

(***************************************************************************)
(* The peers: what a client sends, what a remote answers                   *)
(***************************************************************************)
LiteralTarget == SockAddr(PoolIp(1), 80)

ScriptKinds == {"split", "blocked", "multi", "empty", "dnserr", "badtype"}

\* the target a client script asks for
ScriptTarget(kind) ==
    CASE kind = "split" -> LiteralTarget
      [] kind = "blocked" -> SockAddr(BlockedIp, 80)
      [] kind = "multi" -> DomainAddr(HostMulti, 80)
      [] kind = "empty" -> DomainAddr(HostEmpty, 80)
      [] kind = "dnserr" -> DomainAddr(HostErr, 80)
      [] OTHER -> NoAddr

\* the plaintext chunks of a client script: the address frame, then payload
ScriptChunks(kind) ==
    LET f == EncodeAddress(ScriptTarget(kind)) IN
    CASE kind = "split" -> <<Take(f, 3), Drop(f, 3) \o <<101>>>>
      [] kind = "badtype" -> <<<<2, 0, 0>>>>
      [] OTHER -> <<f \o <<101>>>>

\* the items a client puts on the wire: its salt, then the sealed chunks
ScriptWire(kind, k) ==
    <<Salt(k)>> \o [j \in 1..Len(ScriptChunks(kind)) |-> Seal(k, ScriptChunks(kind)[j])]

\* the first thing a client sends: its salt with the first chunk
FirstFlight(kind, k) == Take(ScriptWire(kind, k), 2)

\* the j-th byte a remote sends
RemoteByte(j) == 200 + j

ConnectOutcomes == {"ok", "refused", "timeout"}

(***************************************************************************)
(* The management channel: ManagerAddr, ManagerSocketAddr, the filesystem  *)
(***************************************************************************)
\* ManagerAddr::UnixSocketAddr(path), and a named UnixSocketAddr
UnixAddr(path) == [kind |-> "unix", ip |-> <<>>, host |-> path, port |-> 0]
\* a UnixSocketAddr that is_unnamed()
Unnamed == [kind |-> "unnamed", ip |-> <<>>, host |-> <<>>, port |-> 0]
\* 0.0.0.0:0, the local address connect_socket_addr binds to
Unspecified == SockAddr(<<0, 0, 0, 0>>, 0)

Paths == {<<1>>}
MgrSockAddr == SockAddr(<<127, 0, 0, 1>>, 6001)

\* the ManagerAddr values the calls are given
ManagerAddrs ==
    {MgrSockAddr}
        \cup {DomainAddr(h, 6000 + h[1]) : h \in {HostMulti, HostEmpty, HostErr}}
        \cup {UnixAddr(p) : p \in Paths}

\* the ManagerSocketAddr values send_to is given
ManagerSocketAddrs == {MgrSockAddr, Unnamed} \cup {UnixAddr(p) : p \in Paths}

\* a filesystem entry: nothing, a file that is no live socket, or the socket
\* of dgram[n]
NoEntry == [kind |-> "none", sock |-> 0]
FileEntry == [kind |-> "file", sock |-> 0]
SockEntry(n) == [kind |-> "socket", sock |-> n]

\* no ManagerDatagram call yet
NoCall ==
    [op |-> "none", sock |-> 0, target |-> NoAddr, before |-> NoEntry,
     res |-> Running, tx |-> <<>>, resolved |-> <<>>]

\* the outcomes of one operation on a UDP socket
IoOutcomes == {"ok", "err"}

\* the outcomes of the operations of one call: the first k fail
FailFirst(k) == [j \in 1..MaxAddrs |-> IF j <= k THEN "err" ELSE "ok"]

\* the number of operations a call with this target can make
Attempts(addr) ==
    CASE addr.kind = "ip" -> 1
      [] addr.kind = "domain" -> MaxAddrs
      [] OTHER -> 0

(***************************************************************************)
(* State                                                                   *)
(***************************************************************************)
VARIABLES
    nfail,      \* the accept calls that have failed so far
    runpc,      \* run: "binding", "serving" or "returned"
    runres,     \* what run returned
    listeners,  \* the instances whose TcpListener is bound
    acc,        \* per instance, where its accept loop is
    conn,       \* the client sockets accepted so far, in accept order
    flow,       \* per FlowCounter, the bytes counted: rx read, tx written
    resolver,   \* context.dns_resolver() is Some
    fsys,       \* per path, the filesystem entry there
    dgram,      \* the ManagerDatagram sockets created so far
    mlast       \* the last ManagerDatagram call and what it returned

vars == <<nfail, runpc, runres, listeners, acc, conn, flow, resolver, fsys, dgram, mlast>>

\* the state of the relay server and the state of the management channel
rvars == <<nfail, runpc, runres, listeners, acc, conn, flow>>
mvars == <<resolver, fsys, dgram, mlast>>

Conns == 1..Len(conn)

IdleHalf == [st |-> "idle", buf |-> <<>>]

\* the socket of an accepted peer and the handler state of its connection
NewConn(i, peer) ==
    [inst |-> i, peer |-> peer, fails |-> nfail, script |-> "none", ckey |-> 0,
     pc |-> "accepted", res |-> Running, copen |-> TRUE,
     csent |-> 0, cfin |-> FALSE, cin |-> <<>>,
     salted |-> FALSE, plain |-> <<>>, decodeErr |-> Running,
     target |-> NoAddr, lookups |-> 0, addrs |-> <<>>, tried |-> <<>>, remote |-> NoAddr,
     ropen |-> FALSE, rsent |-> 0, rfin |-> FALSE, rin |-> <<>>,
     rout |-> <<>>, cout |-> <<>>,
     rhalf |-> IdleHalf, whalf |-> IdleHalf,
     nread |-> 0, nwritten |-> 0, nraw |-> 0]

\* the connects of a connection that a remote refused or let time out
RECURSIVE FailedConnects(_)
FailedConnects(tried) ==
    IF tried = <<>> THEN 0
    ELSE (IF Head(tried).res = Ok THEN 0 ELSE 1) + FailedConnects(Tail(tried))

\* what the outside world has done to one connection: the client connected,
\* the peers sent and closed, a client read timed out, a connect failed
PeerEvents(cn) ==
    1 + cn.csent + cn.rsent
      + (IF cn.cfin THEN 1 ELSE 0) + (IF cn.rfin THEN 1 ELSE 0)
      + (IF cn.decodeErr.kind = "timedout" THEN 1 ELSE 0)
      + (IF cn.rhalf.st = "timeout" THEN 1 ELSE 0)
      + FailedConnects(cn.tried)

RECURSIVE SumEvents(_)
SumEvents(cs) == IF cs = <<>> THEN 0 ELSE PeerEvents(Head(cs)) + SumEvents(Tail(cs))

\* the outside world may still act
MayAct == SumEvents(conn) + nfail < MaxEvents

Init ==
    /\ nfail = 0
    /\ runpc = "binding"
    /\ runres = Running
    /\ listeners = {}
    /\ acc = [i \in Inst |-> "new"]
    /\ conn = <<>>
    /\ flow = [i \in Inst |-> [rx |-> 0, tx |-> 0]]
    /\ resolver = TRUE
    /\ fsys = [p \in Paths |-> NoEntry]
    /\ dgram = <<>>
    /\ mlast = NoCall

(***************************************************************************)
(* Flow statistics: TcpMonStream over the client socket                    *)
(***************************************************************************)
\* a variant of run that hands every accept loop the first FlowCounter
FlowOfFirst(i) == 1

\* flow_stat.get(svr_cfg.addr().port()): the FlowCounter of instance i
FlowOf(i) == i

\* TcpMonStream: a read of these items from the client socket succeeded
MonRead(cn, items) == [cn EXCEPT !.nread = @ + WireSize(items)]

\* TcpMonStream: a write of these items to the client socket succeeded
MonWrite(cn, items) == [cn EXCEPT !.cout = @ \o items, !.nwritten = @ + WireSize(items)]

\* a read of the raw TcpStream, below the TcpMonStream
RawRead(cn, items) == [cn EXCEPT !.nraw = @ + WireSize(items)]

\* the FlowCounter after the reads and writes that took a connection's
\* TcpMonStream from old to new
Counted(f, old, new) ==
    [f EXCEPT ![FlowOf(old.inst)] = [rx |-> @.rx + (new.nread - old.nread),
                                      tx |-> @.tx + (new.nwritten - old.nwritten)]]

(***************************************************************************)
(* run: bind every instance, then drive the accept loops                   *)
(***************************************************************************)
\* vec_fut.into_future().await: run returns as soon as one accept loop exits
AwaitServers(a, pc, res) ==
    IF \E i \in Inst : a[i] = "exited"
    THEN [pc |-> "returned", res |-> Err("exited", NoAddr)]
    ELSE [pc |-> pc, res |-> res]

\* a variant of the for loop that logs a failed bind and serves without
\* that instance
BindSkipsFailed(out) ==
    /\ runpc = "binding"
    /\ LET i == Cardinality(listeners) + 1 IN
       /\ listeners' = IF out = "ok" THEN listeners \cup {i} ELSE listeners
       /\ runpc' = IF i = NumInst \/ out # "ok" THEN "serving" ELSE "binding"
       /\ acc' = IF i = NumInst \/ out # "ok"
                 THEN [j \in Inst |-> IF j \in listeners' THEN "accept" ELSE "dropped"]
                 ELSE acc
       /\ runres' = runres
    /\ UNCHANGED <<nfail, conn, mvars, flow>>

\* a variant of the for loop that spawns each accept loop as soon as its
\* listener is bound
BindStartsLoop(out) ==
    /\ runpc = "binding"
    /\ LET i == Cardinality(listeners) + 1 IN
       IF out = "ok"
       THEN /\ listeners' = listeners \cup {i}
            /\ runpc' = IF i = NumInst THEN "serving" ELSE "binding"
            /\ acc' = [acc EXCEPT ![i] = "accept"]
            /\ runres' = runres
       ELSE /\ listeners' = {}
            /\ runpc' = "returned"
            /\ runres' = Err(out, ExternalAddr(i))
            /\ acc' = [j \in Inst |-> "dropped"]
    /\ UNCHANGED <<nfail, conn, mvars, flow>>

\* one iteration of the for loop of run: resolve and bind the external address
\* of the next instance and push its accept loop; after the last one the
\* loops are awaited
Bind(out) ==
    /\ runpc = "binding"
    /\ LET i == Cardinality(listeners) + 1 IN
       IF out = "ok"
       THEN /\ listeners' = listeners \cup {i}
            /\ runpc' = IF i = NumInst THEN "serving" ELSE "binding"
            /\ acc' = IF i = NumInst THEN [j \in Inst |-> "accept"] ELSE acc
            /\ runres' = runres
       ELSE /\ listeners' = {}
            /\ runpc' = "returned"
            /\ runres' = Err(out, ExternalAddr(i))
            /\ acc' = [j \in Inst |-> "dropped"]
    /\ UNCHANGED <<nfail, conn, mvars, flow>>

\* a variant of the accept loop that spawns a handler for every peer
AcceptAdmitsAll(peer) == TRUE

\* the inbound ACL check of the accept loop
AcceptAdmits(peer) == ~ClientBlocked(peer)

\* listener.accept() returns a socket: check the inbound ACL, then spawn
\* handle_client on it or drop it, and loop
AcceptOk(i, peer) ==
    /\ runpc = "serving"
    /\ acc[i] = "accept"
    /\ Len(conn) < MaxConn
    /\ MayAct
    /\ conn' = Append(conn,
                  IF AcceptAdmits(peer)
                  THEN NewConn(i, peer)
                  ELSE [NewConn(i, peer) EXCEPT !.pc = "none", !.copen = FALSE])
    /\ UNCHANGED <<nfail, runpc, runres, listeners, acc, mvars, flow>>

\* a variant of the Err arm that goes straight back to accept
AcceptErrHotLoop(i) ==
    /\ runpc = "serving"
    /\ acc[i] = "accept"
    /\ MayAct
    /\ nfail' = nfail + 1
    /\ UNCHANGED <<runpc, runres, listeners, acc, conn, mvars, flow>>

\* listener.accept() fails: log and sleep one second
AcceptErr(i) ==
    /\ runpc = "serving"
    /\ acc[i] = "accept"
    /\ MayAct
    /\ nfail' = nfail + 1
    /\ acc' = [acc EXCEPT ![i] = "sleep"]
    /\ UNCHANGED <<runpc, runres, listeners, conn, mvars, flow>>

\* the sleep is over: back to accept
SleepDone(i) ==
    /\ runpc = "serving"
    /\ acc[i] = "sleep"
    /\ acc' = [acc EXCEPT ![i] = "accept"]
    /\ UNCHANGED <<nfail, runpc, runres, listeners, conn, mvars, flow>>

(***************************************************************************)
(* handle_client                                                           *)
(***************************************************************************)
\* a variant of the accept loop that awaits the handler and propagates its error
TaskEndPropagates(accst, r) == IF IsErr(r) THEN "exited" ELSE accst

\* the spawned task: let _ = handle_client(..).await; the accept loop that
\* spawned it does not see the result
TaskEnd(accst, r) == accst

\* handle_client returns: its sockets and streams are dropped
Returned(cn, r) ==
    [cn EXCEPT !.pc = "done", !.res = r, !.copen = FALSE, !.ropen = FALSE,
               !.cin = <<>>, !.plain = <<>>, !.rin = <<>>,
               !.rhalf = [@ EXCEPT !.buf = <<>>], !.whalf = [@ EXCEPT !.buf = <<>>]]

Finish(c, cn, r) ==
    /\ conn' = [conn EXCEPT ![c] = Returned(cn, r)]
    /\ flow' = Counted(flow, conn[c], cn)
    /\ acc' = [acc EXCEPT ![cn.inst] = TaskEnd(@, r)]
    /\ runpc' = AwaitServers(acc', runpc, runres).pc
    /\ runres' = AwaitServers(acc', runpc, runres).res
    /\ UNCHANGED <<nfail, listeners, mvars>>

Step(c, cn) ==
    /\ conn' = [conn EXCEPT ![c] = cn]
    /\ flow' = Counted(flow, conn[c], cn)
    /\ UNCHANGED <<nfail, runpc, runres, listeners, acc, mvars>>

\* a variant of the handshake that sends the server's salt as soon as the
\* cipher stream is made
HandlerStartGreets(c, ok) ==
    /\ conn[c].pc = "accepted"
    /\ IF ok
       THEN Step(c, MonWrite([conn[c] EXCEPT !.pc = "read_addr"], <<Salt(Key(conn[c].inst))>>))
       ELSE Finish(c, conn[c], Err("io", NoAddr))

\* STcpStream::new, set_nodelay(..)?, TcpMonStream::new, CryptoStream::new
HandlerStart(c, ok) ==
    /\ conn[c].pc = "accepted"
    /\ IF ok
       THEN Step(c, [conn[c] EXCEPT !.pc = "read_addr"])
       ELSE Finish(c, conn[c], Err("io", NoAddr))

\* a variant of the Err arm that returns the error at once
DecodeFailedCloses(cn, err) ==
    [cn EXCEPT !.pc = "done", !.res = err, !.decodeErr = err, !.copen = FALSE,
               !.cin = <<>>, !.plain = <<>>]

\* the Err arm of Address::read_from: strip the layers down to the raw
\* socket and hold the connection
DecodeFailed(cn, err) ==
    [cn EXCEPT !.pc = "hold", !.decodeErr = err, !.plain = <<>>]

\* the Ok arm of Address::read_from
Decoded(cn, parsed) ==
    [cn EXCEPT !.pc = "acl", !.target = parsed.addr, !.plain = parsed.rest]

\* Address::read_from(&mut stream): one read of the cipher stream. The first
\* read takes the salt; a chunk is opened and its plaintext parsed
ReadAddrItem(c) ==
    /\ conn[c].pc = "read_addr"
    /\ conn[c].cin # <<>>
    /\ LET cn == conn[c]
           items == IF cn.salted THEN cn.cin ELSE Tail(cn.cin)
       IN
       IF items = <<>>
       THEN Step(c, MonRead([cn EXCEPT !.salted = TRUE, !.cin = <<>>], cn.cin))
       ELSE LET item == Head(items)
                taken == IF cn.salted THEN <<item>> ELSE <<Head(cn.cin), item>>
                cn1 == MonRead([cn EXCEPT !.salted = TRUE, !.cin = Tail(items)], taken)
            IN
            IF ~CanOpen(Key(cn.inst), item)
            THEN Step(c, DecodeFailed(cn1, Err("decrypt", NoAddr)))
            ELSE LET buf == cn.plain \o Open(Key(cn.inst), item)
                     parsed == ReadAddress(buf)
                 IN
                 CASE parsed.st = "ok" -> Step(c, Decoded(cn1, parsed))
                   [] parsed.st = "bad" -> Step(c, DecodeFailed(cn1, Err("badtype", NoAddr)))
                   [] OTHER -> Step(c, [cn1 EXCEPT !.plain = buf])

\* the client closed before the frame was complete
ReadAddrEof(c) ==
    /\ conn[c].pc = "read_addr"
    /\ conn[c].cin = <<>>
    /\ conn[c].cfin
    /\ Step(c, DecodeFailed(conn[c], Err("eof", NoAddr)))

\* no byte within the instance timeout
ReadAddrTimeout(c) ==
    /\ conn[c].pc = "read_addr"
    /\ conn[c].cin = <<>>
    /\ ~conn[c].cfin
    /\ MayAct
    /\ Step(c, DecodeFailed(conn[c], Err("timedout", NoAddr)))

\* ignore_until_end: read the raw socket and discard
HoldRead(c) ==
    /\ conn[c].pc = "hold"
    /\ conn[c].cin # <<>>
    /\ Step(c, RawRead([conn[c] EXCEPT !.cin = Tail(@)], <<Head(conn[c].cin)>>))

\* a variant of the hold that reads through the STcpStream, so that a client
\* that stays silent for the instance timeout ends it
HoldEndOnIdle(c) ==
    /\ conn[c].pc = "hold"
    /\ conn[c].cin = <<>>
    /\ Finish(c, conn[c], conn[c].decodeErr)

\* ignore_until_end sees the end of the client's stream: return the decode error
HoldEnd(c) ==
    /\ conn[c].pc = "hold"
    /\ conn[c].cin = <<>>
    /\ conn[c].cfin
    /\ Finish(c, conn[c], conn[c].decodeErr)

\* a variant of the handler without the outbound ACL check
AclCheckSkipped(c) ==
    /\ conn[c].pc = "acl"
    /\ conn' = [conn EXCEPT ![c] = [@ EXCEPT !.pc = "bind"]]
    /\ UNCHANGED <<nfail, runpc, runres, listeners, acc, mvars, flow>>

\* context.check_outbound_blocked(&remote_addr): a blocked target ends the
\* handler with Ok(())
AclCheck(c) ==
    /\ conn[c].pc = "acl"
    /\ IF OutboundBlocked(conn[c].target)
       THEN Finish(c, conn[c], Ok)
       ELSE Step(c, [conn[c] EXCEPT !.pc = "bind"])

\* context.config().local_addr is set: addr.bind_addr(&context).await?
BindAddr(c, ok) ==
    /\ conn[c].pc = "bind"
    /\ IF ok
       THEN Step(c, [conn[c] EXCEPT !.pc = IF @ = "bind" /\ conn[c].target.kind = "ip"
                                            THEN "connect" ELSE "resolve"])
       ELSE Finish(c, conn[c], Err("bind_addr", NoAddr))

\* a variant of the connect without the timeout wrapper: a connect that does
\* not answer is reported like any connect error once the system gives up
TryConnectUnbounded(addr, out) ==
    IF out = "ok" THEN Ok ELSE Err("connect", addr)

\* try_timeout(connect_tcp_stream(addr, bind_addr), timeout)
TryConnect(addr, out) ==
    IF out = "ok" THEN Ok
    ELSE IF out = "timeout" THEN Err("timedout", addr)
    ELSE Err("connect", addr)

\* the outbound stream is established
Connected(cn, addr) ==
    [cn EXCEPT !.pc = "relay", !.remote = addr, !.ropen = TRUE]

\* Address::SocketAddress: one connect, its error is returned
ConnectLiteral(c, out) ==
    /\ conn[c].pc = "connect"
    /\ conn[c].target.kind = "ip"
    /\ out # "ok" => MayAct
    /\ LET cn == conn[c]
           r == TryConnect(cn.target, out)
           cn1 == [cn EXCEPT !.tried = Append(@, [addr |-> cn.target, out |-> out, res |-> r])]
       IN
       IF r = Ok
       THEN Step(c, Connected(cn1, cn.target))
       ELSE Finish(c, cn1, r)

(***************************************************************************)
(* lookup_then!(context, host, port, |addr| F)                             *)
(***************************************************************************)
\* a variant of the loop that walks the resolved addresses from the end
LookupPickReversed(addrs, tried) == addrs[Len(addrs) - Len(tried)]

\* the address the loop hands to F next
LookupPick(addrs, tried) == addrs[Len(tried) + 1]

\* a variant of the loop that keeps the first error instead of the last
LookupAfterFirstError(addrs, tried) ==
    LET last == tried[Len(tried)] IN
    IF last.res = Ok THEN [st |-> "ok", addr |-> last.addr, err |-> Ok]
    ELSE IF Len(tried) >= Len(addrs) THEN [st |-> "err", addr |-> NoAddr, err |-> tried[1].res]
    ELSE [st |-> "next", addr |-> NoAddr, err |-> Ok]

\* where the loop stands after the attempts in tried (tried is not empty):
\* "ok" with the address that succeeded, "err" with the error returned,
\* "next" when another address is left
LookupAfter(addrs, tried) ==
    LET last == tried[Len(tried)] IN
    IF last.res = Ok THEN [st |-> "ok", addr |-> last.addr, err |-> Ok]
    ELSE IF Len(tried) >= Len(addrs) THEN [st |-> "err", addr |-> NoAddr, err |-> last.res]
    ELSE [st |-> "next", addr |-> NoAddr, err |-> Ok]

\* a variant of the loop that unwraps a result no address has produced
LookupEmptyPanics(host, port) == Err("panic", DomainAddr(host, port))

\* the result of the lookup when the resolver gives no address
LookupEmpty(host, port) == Err("resolve", DomainAddr(host, port))

\* Address::DomainNameAddress: the resolve step of lookup_then!
ResolveTarget(c) ==
    /\ conn[c].pc = "resolve"
    /\ LET cn == [conn[c] EXCEPT !.lookups = @ + 1]
           r == ResolveIn(resolver, cn.target.host, cn.target.port)
       IN
       IF ~r.ok THEN Finish(c, cn, r.err)
       ELSE IF r.addrs = <<>> THEN Finish(c, cn, LookupEmpty(cn.target.host, cn.target.port))
       ELSE Step(c, [cn EXCEPT !.pc = "connect", !.addrs = r.addrs])

\* a variant of the domain arm that resolves the name again before it tries
\* the next address
ConnectResolvedAgain(c, out) ==
    /\ conn[c].pc = "connect"
    /\ conn[c].target.kind = "domain"
    /\ out # "ok" => MayAct
    /\ LET cn == conn[c]
           a == LookupPick(cn.addrs, cn.tried)
           tr == Append(cn.tried, [addr |-> a, out |-> out, res |-> TryConnect(a, out)])
           cn1 == [cn EXCEPT !.tried = tr]
           after == LookupAfter(cn.addrs, tr)
       IN
       CASE after.st = "ok" -> Step(c, Connected(cn1, after.addr))
         [] after.st = "err" -> Finish(c, cn1, after.err)
         [] OTHER -> Step(c, [cn1 EXCEPT !.pc = "resolve"])

\* Address::DomainNameAddress: one round of the loop of lookup_then! with the
\* connect closure, and the match on its result
ConnectResolved(c, out) ==
    /\ conn[c].pc = "connect"
    /\ conn[c].target.kind = "domain"
    /\ out # "ok" => MayAct
    /\ LET cn == conn[c]
           a == LookupPick(cn.addrs, cn.tried)
           tr == Append(cn.tried, [addr |-> a, out |-> out, res |-> TryConnect(a, out)])
           cn1 == [cn EXCEPT !.tried = tr]
           after == LookupAfter(cn.addrs, tr)
       IN
       CASE after.st = "ok" -> Step(c, Connected(cn1, after.addr))
         [] after.st = "err" -> Finish(c, cn1, after.err)
         [] OTHER -> Step(c, cn1)

(***************************************************************************)
(* Relaying: future::select(copy_s2p, copy_p2s)                            *)
(***************************************************************************)
\* a variant that joins the two halves: the handler goes on until both are complete
HalfCompletedJoin(c, cn) ==
    IF cn.rhalf.st \in {"idle", "buf"} \/ cn.whalf.st \in {"idle", "buf"}
    THEN /\ conn' = [conn EXCEPT ![c] = cn]
         /\ UNCHANGED <<nfail, runpc, runres, listeners, acc, mvars, flow>>
    ELSE /\ conn' = [conn EXCEPT ![c] = [cn EXCEPT !.pc = "done", !.res = Ok, !.copen = FALSE, !.ropen = FALSE]]
         /\ UNCHANGED <<nfail, runpc, runres, listeners, acc, mvars, flow>>

\* future::select: the half that completes ends handle_client with Ok(());
\* the other half is dropped with it
HalfCompleted(c, cn) == Finish(c, cn, Ok)

\* copy_s2p reads the cipher stream: buffered plaintext first, then the next chunk
S2PRead(c) ==
    /\ conn[c].pc = "relay"
    /\ conn[c].rhalf.st = "idle"
    /\ LET cn == conn[c] IN
       IF cn.plain # <<>>
       THEN Step(c, [cn EXCEPT !.rhalf = [st |-> "buf", buf |-> cn.plain], !.plain = <<>>])
       ELSE IF cn.cin # <<>>
       THEN IF CanOpen(Key(cn.inst), Head(cn.cin))
            THEN Step(c, MonRead([cn EXCEPT !.rhalf = [st |-> "buf", buf |-> Open(Key(cn.inst), Head(cn.cin))],
                                            !.cin = Tail(@)], <<Head(cn.cin)>>))
            ELSE HalfCompleted(c, MonRead([cn EXCEPT !.rhalf = [st |-> "err", buf |-> <<>>], !.cin = Tail(@)],
                                          <<Head(cn.cin)>>))
       ELSE /\ cn.cfin
            /\ HalfCompleted(c, [cn EXCEPT !.rhalf = [st |-> "eof", buf |-> <<>>]])

\* copy_s2p: the read on the client socket times out
S2PTimeout(c) ==
    /\ conn[c].pc = "relay"
    /\ conn[c].rhalf.st = "idle"
    /\ conn[c].plain = <<>> /\ conn[c].cin = <<>> /\ ~conn[c].cfin
    /\ MayAct
    /\ HalfCompleted(c, [conn[c] EXCEPT !.rhalf = [st |-> "timeout", buf |-> <<>>]])

\* a variant of the wiring of the halves: what was read from the client goes
\* back to the client
S2PWriteEcho(c) ==
    /\ conn[c].pc = "relay"
    /\ conn[c].rhalf.st = "buf"
    /\ conn' = [conn EXCEPT ![c] = [@ EXCEPT !.cout = @ \o <<Seal(Key(conn[c].inst), conn[c].rhalf.buf)>>,
                                            !.rhalf = [st |-> "idle", buf |-> <<>>]]]
    /\ UNCHANGED <<nfail, runpc, runres, listeners, acc, mvars, flow>>

\* copy_s2p writes what it read to the remote
S2PWrite(c) ==
    /\ conn[c].pc = "relay"
    /\ conn[c].rhalf.st = "buf"
    /\ Step(c, [conn[c] EXCEPT !.rout = @ \o conn[c].rhalf.buf, !.rhalf = IdleHalf])

\* copy_p2s reads the remote
P2SRead(c) ==
    /\ conn[c].pc = "relay"
    /\ conn[c].whalf.st = "idle"
    /\ LET cn == conn[c] IN
       IF cn.rin # <<>>
       THEN Step(c, [cn EXCEPT !.whalf = [st |-> "buf", buf |-> cn.rin], !.rin = <<>>])
       ELSE /\ cn.rfin
            /\ HalfCompleted(c, [cn EXCEPT !.whalf = [st |-> "eof", buf |-> <<>>]])

\* the cipher stream frames a write to the client: its salt goes first
Framed(cn, plain) ==
    (IF cn.cout = <<>> THEN <<Salt(Key(cn.inst))>> ELSE <<>>) \o <<Seal(Key(cn.inst), plain)>>

\* copy_p2s encrypts what it read and writes it to the client
P2SWrite(c) ==
    /\ conn[c].pc = "relay"
    /\ conn[c].whalf.st = "buf"
    /\ Step(c, MonWrite([conn[c] EXCEPT !.whalf = IdleHalf], Framed(conn[c], conn[c].whalf.buf)))

(***************************************************************************)
(* The peers                                                               *)
(***************************************************************************)
ClientWire(cn) == ScriptWire(cn.script, cn.ckey)

\* the client starts to talk: it picks what it asks for and the key it uses, and
\* sends its salt with the first chunk
ClientHello(c, kind, good) ==
    /\ conn[c].copen /\ ~conn[c].cfin
    /\ conn[c].csent = 0
    /\ MayAct
    /\ LET k == IF good THEN Key(conn[c].inst) ELSE OtherKey(Key(conn[c].inst)) IN
       Step(c, [conn[c] EXCEPT !.script = kind, !.ckey = k,
                               !.cin = FirstFlight(kind, k), !.csent = 1])

\* the client sends the next chunk
ClientSend(c) ==
    /\ conn[c].copen /\ ~conn[c].cfin
    /\ conn[c].csent > 0
    /\ conn[c].csent < Len(ScriptChunks(conn[c].script))
    /\ MayAct
    /\ Step(c, [conn[c] EXCEPT !.cin = Append(@, ClientWire(conn[c])[conn[c].csent + 2]),
                               !.csent = @ + 1])

\* the client closes its side
ClientClose(c) ==
    /\ conn[c].copen /\ ~conn[c].cfin
    /\ MayAct
    /\ Step(c, [conn[c] EXCEPT !.cfin = TRUE])

\* the remote sends a byte
RemoteSend(c) ==
    /\ conn[c].ropen /\ ~conn[c].rfin
    /\ MayAct
    /\ Step(c, [conn[c] EXCEPT !.rin = Append(@, RemoteByte(conn[c].rsent + 1)), !.rsent = @ + 1])

\* the remote closes its write side
RemoteClose(c) ==
    /\ conn[c].ropen /\ ~conn[c].rfin
    /\ MayAct
    /\ Step(c, [conn[c] EXCEPT !.rfin = TRUE])

(***************************************************************************)
(* ManagerDatagram                                                         *)
(***************************************************************************)
\* one operation F of lookup_then! on a resolved address
IoResult(addr, out) == IF out = "ok" THEN Ok ELSE Err("io", addr)

\* the loop of lookup_then!: F on each address in turn until one succeeds
RECURSIVE LookupLoop(_, _, _)
LookupLoop(addrs, outs, tried) ==
    IF tried # <<>> /\ LookupAfter(addrs, tried).st # "next"
    THEN tried
    ELSE LET a == LookupPick(addrs, tried)
             o == outs[Len(tried) + 1]
         IN LookupLoop(addrs, outs, Append(tried, [addr |-> a, out |-> o, res |-> IoResult(a, o)]))

\* lookup_then!(context, host, port, F): the result, the address F succeeded
\* on, and the attempts made
LookupThen(host, port, outs) ==
    LET r == ResolveIn(resolver, host, port) IN
    IF ~r.ok THEN [res |-> r.err, addr |-> NoAddr, tried |-> <<>>, resolved |-> <<r>>]
    ELSE IF r.addrs = <<>>
    THEN [res |-> LookupEmpty(host, port), addr |-> NoAddr, tried |-> <<>>, resolved |-> <<r>>]
    ELSE LET tr == LookupLoop(r.addrs, outs, <<>>)
             after == LookupAfter(r.addrs, tr)
         IN [res |-> IF after.st = "ok" THEN Ok ELSE after.err, addr |-> after.addr,
             tried |-> tr, resolved |-> <<r>>]

\* what went to the underlying socket: one datagram per attempt
Transmitted(tried) == [j \in 1..Len(tried) |-> [to |-> tried[j].addr, dst |-> 0, res |-> tried[j].res]]

InvalidInput(target) == [res |-> Err("InvalidInput", target), tx |-> <<>>, resolved |-> <<>>]

\* udp.send_to(buf, saddr)
UdpSendTo(saddr, out) ==
    [res |-> IoResult(saddr, out),
     tx |-> <<[to |-> saddr, dst |-> 0, res |-> IoResult(saddr, out)]>>,
     resolved |-> <<>>]

\* unix.send_to(buf, path): the datagram goes to the socket the path names
UnixSendTo(path) ==
    LET r == IF path \in Paths /\ fsys[path].kind = "socket" THEN Ok ELSE Err("io", UnixAddr(path))
        d == IF path \in Paths /\ fsys[path].kind = "socket" THEN fsys[path].sock ELSE 0
    IN [res |-> r, tx |-> <<[to |-> UnixAddr(path), dst |-> d, res |-> r]>>, resolved |-> <<>>]

\* a variant of send_to that hands an unnamed address to the socket as the
\* empty path, and an address of the other kind as it is
SendToUnchecked(sk, target, out) ==
    IF sk.kind = "udp"
    THEN UdpSendTo(target, out)
    ELSE UnixSendTo(target.host)

\* ManagerDatagram::send_to(buf, target)
SendTo(sk, target, out) ==
    IF sk.kind = "udp"
    THEN IF target.kind = "ip" THEN UdpSendTo(target, out) ELSE InvalidInput(target)
    ELSE IF target.kind \in {"unix", "unnamed"}
         THEN IF target.kind = "unix" THEN UnixSendTo(target.host) ELSE InvalidInput(target)
         ELSE InvalidInput(target)

\* a variant of send_to_manager that resolves a domain target before it
\* looks at the kind of the socket, and sends to the first address only
SendToManagerFirstOnly(sk, target, outs) ==
    IF target.kind = "domain"
    THEN LET r == ResolveIn(resolver, target.host, target.port) IN
         IF sk.kind # "udp" THEN [InvalidInput(target) EXCEPT !.resolved = <<r>>]
         ELSE IF ~r.ok \/ r.addrs = <<>> THEN [res |-> Err("resolve", target), tx |-> <<>>, resolved |-> <<r>>]
         ELSE [UdpSendTo(r.addrs[1], outs[1]) EXCEPT !.resolved = <<r>>]
    ELSE IF sk.kind = "udp"
    THEN IF target.kind = "ip" THEN UdpSendTo(target, outs[1]) ELSE InvalidInput(target)
    ELSE IF target.kind = "unix" THEN UnixSendTo(target.host) ELSE InvalidInput(target)

\* ManagerDatagram::send_to_manager(buf, context, target)
SendToManager(sk, target, outs) ==
    IF sk.kind = "udp"
    THEN IF target.kind = "ip" THEN UdpSendTo(target, outs[1])
         ELSE IF target.kind = "domain"
         THEN LET l == LookupThen(target.host, target.port, outs) IN
              [res |-> l.res, tx |-> Transmitted(l.tried), resolved |-> l.resolved]
         ELSE InvalidInput(target)
    ELSE IF target.kind = "unix" THEN UnixSendTo(target.host) ELSE InvalidInput(target)

\* fs::remove_file(path): a file or a socket file is removed
RemoveFile(fs, path) == [fs EXCEPT ![path] = NoEntry]

\* a variant of bind that does not remove the entry first
BindPathKeepsEntry(fs, path, n) ==
    IF fs[path].kind = "none"
    THEN [res |-> Ok, fs |-> [fs EXCEPT ![path] = SockEntry(n)]]
    ELSE [res |-> Err("AddrInUse", UnixAddr(path)), fs |-> fs]

\* the UnixSocketAddr arm of bind: let _ = fs::remove_file(path);
\* UnixDatagram::bind(path)?, which fails when the path has an entry
BindPath(fs, path, n) ==
    LET fs1 == RemoveFile(fs, path) IN
    IF fs1[path].kind = "none"
    THEN [res |-> Ok, fs |-> [fs1 EXCEPT ![path] = SockEntry(n)]]
    ELSE [res |-> Err("AddrInUse", UnixAddr(path)), fs |-> fs1]

Called(op, n, target, before, r) ==
    [op |-> op, sock |-> n, target |-> target, before |-> before,
     res |-> r.res, tx |-> r.tx, resolved |-> r.resolved]

\* ManagerDatagram::bind(context, bind_addr)
DatagramBind(addr, outs) ==
    /\ Len(dgram) < MaxSock
    /\ LET n == Len(dgram) + 1 IN
       CASE addr.kind = "ip" ->
              LET r == IoResult(addr, outs[1]) IN
              /\ dgram' = IF r = Ok THEN Append(dgram, [kind |-> "udp", local |-> addr]) ELSE dgram
              /\ mlast' = Called("bind", IF r = Ok THEN n ELSE 0, addr, NoEntry,
                                 [res |-> r, tx |-> <<>>, resolved |-> <<>>])
              /\ fsys' = fsys
         [] addr.kind = "domain" ->
              LET l == LookupThen(addr.host, addr.port, outs) IN
              /\ dgram' = IF l.res = Ok THEN Append(dgram, [kind |-> "udp", local |-> l.addr]) ELSE dgram
              /\ mlast' = Called("bind", IF l.res = Ok THEN n ELSE 0, addr, NoEntry,
                                 [res |-> l.res, tx |-> <<>>, resolved |-> l.resolved])
              /\ fsys' = fsys
         [] OTHER ->
              LET b == BindPath(fsys, addr.host, n) IN
              /\ dgram' = IF b.res = Ok THEN Append(dgram, [kind |-> "unix", local |-> addr]) ELSE dgram
              /\ mlast' = Called("bind", IF b.res = Ok THEN n ELSE 0, addr, fsys[addr.host],
                                 [res |-> b.res, tx |-> <<>>, resolved |-> <<>>])
              /\ fsys' = b.fs
    /\ UNCHANGED <<rvars, resolver>>

\* ManagerDatagram::connect(context, bind_addr); connect_socket_addr binds an
\* ephemeral local UDP socket and connects it
DatagramConnect(addr, outs) ==
    /\ Len(dgram) < MaxSock
    /\ LET n == Len(dgram) + 1 IN
       CASE addr.kind = "ip" ->
              LET r == IoResult(addr, outs[1]) IN
              /\ dgram' = IF r = Ok THEN Append(dgram, [kind |-> "udp", local |-> Unspecified]) ELSE dgram
              /\ mlast' = Called("connect", IF r = Ok THEN n ELSE 0, addr, NoEntry,
                                 [res |-> r, tx |-> <<>>, resolved |-> <<>>])
         [] addr.kind = "domain" ->
              LET l == LookupThen(addr.host, addr.port, outs) IN
              /\ dgram' = IF l.res = Ok THEN Append(dgram, [kind |-> "udp", local |-> Unspecified]) ELSE dgram
              /\ mlast' = Called("connect", IF l.res = Ok THEN n ELSE 0, addr, NoEntry,
                                 [res |-> l.res, tx |-> <<>>, resolved |-> l.resolved])
         [] OTHER ->
              /\ dgram' = Append(dgram, [kind |-> "unix", local |-> Unnamed])
              /\ mlast' = Called("connect", n, addr, fsys[addr.host],
                                 [res |-> Ok, tx |-> <<>>, resolved |-> <<>>])
    /\ UNCHANGED <<rvars, resolver, fsys>>

\* a call of send_to on socket n
DatagramSendTo(n, target, out) ==
    /\ n \in 1..Len(dgram)
    /\ mlast' = Called("send_to", n, target, NoEntry, SendTo(dgram[n], target, out))
    /\ UNCHANGED <<rvars, resolver, fsys, dgram>>

\* a call of send_to_manager on socket n
DatagramSendToManager(n, target, outs) ==
    /\ n \in 1..Len(dgram)
    /\ mlast' = Called("send_to_manager", n, target, NoEntry, SendToManager(dgram[n], target, outs))
    /\ UNCHANGED <<rvars, resolver, fsys, dgram>>

(***************************************************************************)
(* Specification                                                           *)
(***************************************************************************)
Next ==
    \/ \E out \in {"ok", "resolve", "bind"} : Bind(out)
    \/ \E i \in Inst, peer \in Peers : AcceptOk(i, peer)
    \/ \E i \in Inst : AcceptErr(i)
    \/ \E i \in Inst : SleepDone(i)
    \/ \E c \in Conns, ok \in BOOLEAN : HandlerStart(c, ok)
    \/ \E c \in Conns : ReadAddrItem(c)
    \/ \E c \in Conns : ReadAddrEof(c)
    \/ \E c \in Conns : ReadAddrTimeout(c)
    \/ \E c \in Conns : HoldRead(c)
    \/ \E c \in Conns : HoldEnd(c)
    \/ \E c \in Conns : AclCheck(c)
    \/ \E c \in Conns, ok \in BOOLEAN : BindAddr(c, ok)
    \/ \E c \in Conns : ResolveTarget(c)
    \/ \E c \in Conns, out \in ConnectOutcomes : ConnectLiteral(c, out)
    \/ \E c \in Conns, out \in ConnectOutcomes : ConnectResolved(c, out)
    \/ \E c \in Conns : S2PRead(c)
    \/ \E c \in Conns : S2PTimeout(c)
    \/ \E c \in Conns : S2PWrite(c)
    \/ \E c \in Conns : P2SRead(c)
    \/ \E c \in Conns : P2SWrite(c)
    \/ \E c \in Conns, kind \in ScriptKinds : ClientHello(c, kind, TRUE)
    \/ \E c \in Conns : ClientHello(c, "split", FALSE)
    \/ \E c \in Conns : ClientSend(c)
    \/ \E c \in Conns : ClientClose(c)
    \/ \E c \in Conns : RemoteSend(c)
    \/ \E c \in Conns : RemoteClose(c)

Spec == Init /\ [][Next]_vars

\* the management channel on its own: the Context may or may not hold a
\* resolver, and a manager path may hold a file left behind
InitManager ==
    /\ nfail = 0
    /\ runpc = "binding"
    /\ runres = Running
    /\ listeners = {}
    /\ acc = [i \in Inst |-> "new"]
    /\ conn = <<>>
    /\ flow = [i \in Inst |-> [rx |-> 0, tx |-> 0]]
    /\ resolver \in BOOLEAN
    /\ fsys \in [Paths -> {NoEntry, FileEntry}]
    /\ dgram = <<>>
    /\ mlast = NoCall

NextManager ==
    \/ \E addr \in ManagerAddrs : \E k \in 0..Attempts(addr) : DatagramBind(addr, FailFirst(k))
    \/ \E addr \in ManagerAddrs : \E k \in 0..Attempts(addr) : DatagramConnect(addr, FailFirst(k))
    \/ \E n \in 1..MaxSock, target \in ManagerSocketAddrs, out \in IoOutcomes :
          DatagramSendTo(n, target, out)
    \/ \E n \in 1..MaxSock, target \in ManagerAddrs : \E k \in 0..Attempts(target) :
          DatagramSendToManager(n, target, FailFirst(k))

SpecManager == InitManager /\ [][NextManager]_vars

(***************************************************************************)
(* What the peers of a connection have sent and received                   *)
(***************************************************************************)
\* the plaintext the client has sent so far
ClientPlainSent(cn) ==
    IF cn.script = "none" THEN <<>> ELSE Flatten(Take(ScriptChunks(cn.script), cn.csent))

\* the address frame the client put in front of its payload
ClientFrame(cn) == EncodeAddress(ScriptTarget(cn.script))

\* the bytes the remote has sent so far
RemoteSent(cn) == [j \in 1..cn.rsent |-> RemoteByte(j)]

\* the client opens what the server wrote to it: the server's salt, then chunks
\* under the client's key
ClientCanRead(cn) ==
    cn.cout # <<>> =>
        /\ cn.cout[1].kind = "salt"
        /\ \A j \in 2..Len(cn.cout) : CanOpen(cn.ckey, cn.cout[j])

ClientPlainReceived(cn) ==
    Flatten([j \in 1..(Len(cn.cout) - 1) |-> Open(cn.ckey, cn.cout[j + 1])])

\* the address read failed on this connection
AddressReadFailed(cn) == cn.decodeErr # Running

(***************************************************************************)
(* Properties                                                              *)
(***************************************************************************)

\* C1: when the read of the target address fails, the handler holds the client
\* socket: as long as the client has not closed, the socket is open and the
\* handler is in the hold; it has tried no lookup and no connect; it returns,
\* with the decode error, only once the client has closed.
AntiProbeHold ==
    \A c \in Conns :
        AddressReadFailed(conn[c]) =>
            /\ conn[c].tried = <<>> /\ conn[c].lookups = 0 /\ conn[c].remote = NoAddr
            /\ ~conn[c].cfin => (conn[c].copen /\ conn[c].pc = "hold" /\ conn[c].res = Running)
            /\ conn[c].pc # "hold" => (conn[c].pc = "done" /\ conn[c].cfin /\ conn[c].res = conn[c].decodeErr)

\* a client with the wrong key sent its bytes, was held, closed, and the
\* handler returned the decode error
AntiProbeHoldWitness ==
    \E c \in Conns :
        /\ conn[c].decodeErr.kind = "decrypt"
        /\ conn[c].csent > 0
        /\ conn[c].pc = "done"
        /\ conn[c].res = conn[c].decodeErr

HalfDone(h) == h.st \notin {"idle", "buf"}

\* C4: as soon as one of the two copy loops completes, with end of stream or
\* with an error, the handler has returned and both sockets are closed; from
\* then on nothing of the connection changes: the other loop reads and writes
\* no more.
FirstToComplete ==
    [][\A c \in Conns :
          /\ (HalfDone(conn'[c].rhalf) \/ HalfDone(conn'[c].whalf)) =>
                (conn'[c].pc = "done" /\ ~conn'[c].copen /\ ~conn'[c].ropen /\ conn'[c].res = Ok)
          /\ conn[c].pc = "done" => conn'[c] = conn[c]]_vars

\* the remote's end of stream completed the remote->client loop while the
\* client->remote loop held bytes it had read
FirstToCompleteWitness ==
    \E c \in Conns :
        /\ conn[c].pc = "done"
        /\ conn[c].whalf.st = "eof"
        /\ conn[c].rhalf.st = "buf"

AllFailed(tried) == \A j \in 1..Len(tried) : tried[j].res # Ok

\* C5: when the host resolved to a1..an and the connect failed on every one of
\* them, the handler returns the error of an, the last address tried.
LookupLastError ==
    \A c \in Conns :
        (/\ conn[c].target.kind = "domain"
         /\ conn[c].addrs # <<>>
         /\ Len(conn[c].tried) = Len(conn[c].addrs)
         /\ AllFailed(conn[c].tried)) =>
            /\ conn[c].pc = "done"
            /\ conn[c].res = conn[c].tried[Len(conn[c].addrs)].res
            /\ conn[c].res.at = conn[c].addrs[Len(conn[c].addrs)]

LookupLastErrorWitness ==
    \E c \in Conns :
        /\ conn[c].target.kind = "domain"
        /\ Len(conn[c].addrs) >= 2
        /\ Len(conn[c].tried) = Len(conn[c].addrs)
        /\ AllFailed(conn[c].tried)
        /\ conn[c].tried[1].res.kind # conn[c].tried[Len(conn[c].tried)].res.kind

\* C6: the connects of a domain target go to the addresses the resolver
\* returned, in the resolver's order, and a connect that succeeded is the last one.
LookupOrder ==
    \A c \in Conns :
        conn[c].target.kind = "domain" =>
            /\ Len(conn[c].tried) <= Len(conn[c].addrs)
            /\ conn[c].addrs # <<>> =>
                  conn[c].addrs = Resolve(conn[c].target.host, conn[c].target.port).addrs
            /\ \A j \in 1..Len(conn[c].tried) :
                  /\ conn[c].tried[j].addr = conn[c].addrs[j]
                  /\ conn[c].tried[j].res = Ok =>
                        (j = Len(conn[c].tried) /\ conn[c].remote = conn[c].addrs[j])

\* the connect succeeded on an address that is not the last one: the relay
\* ran and ended, and the addresses after it were never tried
LookupOrderWitness ==
    \E c \in Conns :
        /\ conn[c].target.kind = "domain"
        /\ conn[c].tried # <<>>
        /\ Len(conn[c].tried) < Len(conn[c].addrs)
        /\ conn[c].tried[Len(conn[c].tried)].res = Ok
        /\ conn[c].pc = "done"

\* C7: for a domain target a connect that times out and a connect that is
\* refused both make the handler go on to the next resolved address, and the
\* stream that is relayed is the one to the first address whose connect
\* succeeded; for a literal target there is one connect, and its timeout or
\* error is what the handler returns.
ConnectFallback ==
    \A c \in Conns :
        LET cn == conn[c]
            n == Len(cn.tried)
        IN
        /\ \A j \in 1..n :
              /\ cn.tried[j].out = "timeout" => cn.tried[j].res = Err("timedout", cn.tried[j].addr)
              /\ cn.tried[j].out = "refused" => cn.tried[j].res = Err("connect", cn.tried[j].addr)
              /\ cn.tried[j].out = "ok" => cn.tried[j].res = Ok
        /\ cn.target.kind = "domain" =>
              /\ \A j \in 1..n : (j < n => cn.tried[j].res # Ok)
              /\ (n > 0 /\ cn.tried[n].res # Ok /\ n < Len(cn.addrs)) =>
                    (cn.pc = "connect" /\ cn.res = Running)
              /\ cn.remote # NoAddr => (n > 0 /\ cn.tried[n].res = Ok /\ cn.remote = cn.tried[n].addr)
              /\ (n > 0 /\ cn.tried[n].res = Ok) => cn.remote = cn.tried[n].addr
        /\ cn.target.kind = "ip" =>
              /\ n <= 1
              /\ n = 1 => cn.tried[1].addr = cn.target
              /\ (n = 1 /\ cn.tried[1].res # Ok) => (cn.pc = "done" /\ cn.res = cn.tried[1].res)
              /\ (n = 1 /\ cn.tried[1].res = Ok) => cn.remote = cn.target

\* the connect to the first resolved address timed out and the connection to
\* the second one is relayed
ConnectFallbackWitness ==
    \E c \in Conns :
        /\ conn[c].target.kind = "domain"
        /\ Len(conn[c].tried) = 2
        /\ conn[c].tried[1].out = "timeout"
        /\ conn[c].tried[2].res = Ok
        /\ conn[c].pc = "relay"
        /\ conn[c].remote = conn[c].addrs[2]

\* C8: when the lookup of a domain target gives no address, the handler
\* returns a resolve error, the connection is closed, and no connect was tried.
EmptyResolution ==
    \A c \in Conns :
        (/\ conn[c].target.kind = "domain"
         /\ conn[c].lookups > 0
         /\ DnsAnswer(conn[c].target.host).ok
         /\ DnsAnswer(conn[c].target.host).ips = <<>>) =>
            /\ conn[c].pc = "done"
            /\ conn[c].res = Err("resolve", conn[c].target)
            /\ ~conn[c].copen
            /\ conn[c].tried = <<>> /\ conn[c].remote = NoAddr

EmptyResolutionWitness ==
    \E c \in Conns :
        /\ conn[c].target = DomainAddr(HostEmpty, 80)
        /\ conn[c].lookups = 1
        /\ conn[c].pc = "done"

\* the socket of connection c was dropped without a handler
NeverHandled(cn) ==
    /\ cn.pc = "none" /\ ~cn.copen /\ cn.res = Running
    /\ ~cn.salted /\ cn.cin = <<>> /\ cn.plain = <<>> /\ cn.decodeErr = Running
    /\ cn.target = NoAddr /\ cn.lookups = 0 /\ cn.tried = <<>> /\ cn.remote = NoAddr
    /\ cn.rout = <<>> /\ cn.cout = <<>>

\* C9: a peer the inbound ACL blocks gets no handler: its socket is dropped,
\* nothing is read from it, no address is decoded and no connect is made for
\* it; the accept loop that took it is back at accept.
InboundAcl ==
    [][/\ \A c \in 1..Len(conn') : ClientBlocked(conn'[c].peer) => NeverHandled(conn'[c])
       /\ (Len(conn') > Len(conn) /\ ClientBlocked(conn'[Len(conn')].peer)) =>
             (/\ acc'[conn'[Len(conn')].inst] = "accept"
              /\ runpc' = "serving"
              /\ \A c \in Conns : conn'[c] = conn[c])]_vars

\* after a blocked peer the same accept loop has accepted another peer and
\* spawned its handler
InboundAclWitness ==
    \E c \in Conns, d \in Conns :
        /\ c < d
        /\ ClientBlocked(conn[c].peer)
        /\ conn[d].inst = conn[c].inst
        /\ conn[d].pc \notin {"none", "accepted"}

Serving == runpc = "serving" /\ runres = Running /\ \A i \in Inst : acc[i] \in {"accept", "sleep"}

\* C10: a handler that returns an error changes nothing but its own
\* connection: run goes on serving, every accept loop stays where it is and no
\* other connection changes; an accept loop at accept takes the next peer
\* whatever the handlers are doing.
FailureIsolation ==
    [][/\ \A c \in Conns :
             (conn[c].res = Running /\ IsErr(conn'[c].res)) =>
                 /\ runpc' = runpc /\ runres' = runres /\ listeners' = listeners
                 /\ acc' = acc
                 /\ \A d \in Conns \ {c} : conn'[d] = conn[d]
       /\ (\E c \in Conns : IsErr(conn[c].res)) => Serving'
       /\ \A i \in Inst :
             (Serving /\ acc[i] = "accept" /\ Len(conn) < MaxConn /\ MayAct) =>
                 ENABLED AcceptOk(i, PeerGood)]_vars

\* a handler has returned an error, and a connection accepted after that one
\* by the same accept loop is being relayed
FailureIsolationWitness ==
    \E c \in Conns, d \in Conns :
        /\ c < d
        /\ IsErr(conn[c].res)
        /\ conn[d].inst = conn[c].inst
        /\ conn[d].pc = "relay"

\* C11: a failed accept puts its accept loop, and no other, into the
\* one-second sleep; a sleeping loop calls accept again only once the sleep
\* is over, so it takes no peer and fails no accept meanwhile; no accept loop
\* exits and run goes on serving; and whatever the number of accepts that
\* have failed, a loop back at accept takes the next peer and spawns its handler.
AcceptResilience ==
    [][/\ nfail' # nfail =>
             /\ nfail' = nfail + 1
             /\ \E i \in Inst :
                   /\ acc[i] = "accept" /\ acc'[i] = "sleep"
                   /\ \A j \in Inst \ {i} : acc'[j] = acc[j]
             /\ conn' = conn
       /\ \A i \in Inst :
             acc[i] = "sleep" =>
                 /\ acc'[i] \in {"sleep", "accept"}
                 /\ acc'[i] = "sleep" => \A c \in 1..Len(conn') : c > Len(conn) => conn'[c].inst # i
                 /\ ENABLED SleepDone(i)
       /\ nfail > 0 => (runpc' = "serving" /\ \A i \in Inst : acc'[i] \in {"accept", "sleep"})
       /\ \A i \in Inst :
             (nfail > 0 /\ acc[i] = "accept" /\ Len(conn) < MaxConn /\ MayAct) =>
                 ENABLED (AcceptOk(i, PeerGood) /\ conn'[Len(conn')].pc = "accepted")]_vars

\* after two failed accepts a peer was accepted, and its handler is relaying
AcceptResilienceWitness ==
    \E c \in Conns :
        /\ conn[c].fails >= 2
        /\ conn[c].pc = "relay"

\* C12: run returns only with an error: the error of the resolve or bind of
\* an instance's external address when that fails, and then no listener is
\* left, no accept loop runs and no connection was taken; "exited" only when
\* an accept loop has exited. Accept loops run only when every instance is bound.
StartupFailure ==
    /\ runres # Ok
    /\ runpc = "returned" <=> runres # Running
    /\ runpc = "returned" => IsErr(runres)
    /\ runres.kind = "exited" => \E i \in Inst : acc[i] = "exited"
    /\ runres.kind \in {"resolve", "bind"} =>
          /\ runres.at \in {ExternalAddr(i) : i \in Inst}
          /\ listeners = {} /\ conn = <<>> /\ nfail = 0
          /\ \A i \in Inst : acc[i] = "dropped"
    /\ runpc = "binding" =>
          /\ conn = <<>> /\ nfail = 0
          /\ \A i \in Inst : acc[i] = "new"
          /\ listeners = 1..Cardinality(listeners) /\ listeners # Inst
    /\ runpc = "serving" =>
          /\ listeners = Inst
          /\ \A i \in Inst : acc[i] \in {"accept", "sleep"}

\* the bind of the last instance failed after the earlier ones were bound
StartupFailureWitness ==
    /\ runpc = "returned"
    /\ runres = Err("bind", ExternalAddr(NumInst))
    /\ listeners = {}

\* the remote->client loop has read the remote's end of stream
RemoteEofSeen(cn) == cn.whalf.st = "eof"

\* C13 as stated: when the remote->client loop has read the remote's end of
\* stream, the connection has terminated, the client socket is closed, and
\* the client->remote loop holds no bytes that it read and did not write to
\* the remote.
HalfCloseNoLoss ==
    \A c \in Conns :
        RemoteEofSeen(conn[c]) =>
            /\ conn[c].pc = "done" /\ ~conn[c].copen
            /\ conn[c].rhalf.st # "buf"

\* C13: when the remote has closed its write side, the remote->client loop
\* can always take its next step; once it has read the end of stream, every
\* byte the remote sent has been written to the client, the handler has
\* returned Ok and both sockets are closed, so the client reads the end of
\* stream; what the client->remote loop had written to the remote is a
\* prefix of the client's payload, and the bytes it had read but not written
\* are dropped with it.
HalfClosePropagation ==
    \A c \in Conns :
        /\ (conn[c].pc = "relay" /\ conn[c].rfin) => ENABLED (P2SRead(c) \/ P2SWrite(c))
        /\ RemoteEofSeen(conn[c]) =>
              /\ conn[c].rfin
              /\ conn[c].pc = "done" /\ conn[c].res = Ok
              /\ ~conn[c].copen /\ ~conn[c].ropen
              /\ ClientCanRead(conn[c])
              /\ ClientPlainReceived(conn[c]) = RemoteSent(conn[c])
              /\ IsPrefix(conn[c].rout, Drop(ClientPlainSent(conn[c]), Len(ClientFrame(conn[c]))))

\* the remote answered and closed: its byte reached the client, the client's
\* payload had reached the remote, and the connection ended
HalfClosePropagationWitness ==
    \E c \in Conns :
        /\ RemoteEofSeen(conn[c])
        /\ conn[c].rsent > 0
        /\ conn[c].rout # <<>>
        /\ conn[c].pc = "done"

(***************************************************************************)
(* Properties of the management channel and of the resolver                *)
(***************************************************************************)
\* the kind of the socket is the kind of the target
KindsMatch(sk, target) ==
    \/ sk.kind = "udp" /\ target.kind = "ip"
    \/ sk.kind = "unix" /\ target.kind = "unix"

\* C14: send_to hands the datagram to the underlying socket, and returns
\* what that returns, only when a UDP socket is given a socket address or a
\* filesystem socket a named path; in every other case, an unnamed filesystem
\* address included, it returns InvalidInput and nothing goes to the socket.
KindSafety ==
    mlast.op = "send_to" =>
        LET sk == dgram[mlast.sock]
            t == mlast.target
        IN
        /\ mlast.res = Ok => KindsMatch(sk, t)
        /\ KindsMatch(sk, t) =>
              /\ Len(mlast.tx) = 1
              /\ mlast.tx[1].to = t
              /\ mlast.res = mlast.tx[1].res
        /\ ~KindsMatch(sk, t) =>
              /\ mlast.res = Err("InvalidInput", t)
              /\ mlast.tx = <<>>

\* a filesystem socket was given an unnamed address
KindSafetyWitness ==
    /\ mlast.op = "send_to"
    /\ dgram[mlast.sock].kind = "unix"
    /\ mlast.target = Unnamed
    /\ mlast.res.kind = "InvalidInput"

\* the sockets bound at a path
BoundAt(p) == {n \in 1..Len(dgram) : dgram[n].kind = "unix" /\ dgram[n].local = UnixAddr(p)}

Latest(ns) == CHOOSE n \in ns : \A k \in ns : k <= n

DnsResolverContract ==
    \A j \in 1..Len(mlast.resolved) :
        LET r == mlast.resolved[j]
            host == mlast.target.host
            port == mlast.target.port
            ans == DnsAnswer(host)
        IN
        IF resolver
        THEN /\ r.ok = ans.ok
             /\ ans.ok =>
                   /\ Len(r.addrs) = Len(ans.ips)
                   /\ \A k \in 1..Len(ans.ips) :
                         r.addrs[k].kind = "ip" /\ r.addrs[k].ip = ans.ips[k] /\ r.addrs[k].port = port
             /\ ~ans.ok =>
                   /\ r.addrs = <<>>
                   /\ r.err.kind = "resolve" /\ r.err.at.host = host /\ r.err.at.port = port
        ELSE r = TokioResolve(host, port)

\* the Context's resolver gave several addresses
DnsResolverContractWitness ==
    /\ resolver
    /\ mlast.resolved # <<>>
    /\ mlast.resolved[1].ok
    /\ Len(mlast.resolved[1].addrs) >= 2
    /\ mlast.target.port = 6000 + HostMulti[1]

\* C18: send_to_manager on a UDP socket sends once to a socket address; for
\* a domain it resolves once and sends to the resolved addresses in their
\* order, stops at the first send that succeeds, and returns the error of the
\* last address when every send failed. A UDP socket given a path, and a
\* filesystem socket given a socket address or a domain, return InvalidInput
\* with no lookup and no send.
SendToManagerContract ==
    mlast.op = "send_to_manager" =>
        LET sk == dgram[mlast.sock]
            t == mlast.target
            tx == mlast.tx
            n == Len(mlast.tx)
        IN
        /\ (sk.kind = "udp" /\ t.kind = "ip") =>
              /\ mlast.resolved = <<>>
              /\ n = 1 /\ tx[1].to = t /\ mlast.res = tx[1].res
        /\ (sk.kind = "udp" /\ t.kind = "domain") =>
              /\ Len(mlast.resolved) = 1
              /\ LET r == mlast.resolved[1] IN
                 IF ~r.ok \/ r.addrs = <<>>
                 THEN n = 0 /\ mlast.res.kind = "resolve"
                 ELSE /\ n >= 1 /\ n <= Len(r.addrs)
                      /\ \A j \in 1..n : tx[j].to = r.addrs[j]
                      /\ \A j \in 1..(n - 1) : tx[j].res # Ok
                      /\ mlast.res = tx[n].res
                      /\ mlast.res # Ok => n = Len(r.addrs)
        /\ (sk.kind = "unix" /\ t.kind = "unix") =>
              /\ mlast.resolved = <<>>
              /\ n = 1 /\ tx[1].to = t /\ mlast.res = tx[1].res
        /\ ((sk.kind = "udp" /\ t.kind = "unix") \/ (sk.kind = "unix" /\ t.kind \in {"ip", "domain"})) =>
              /\ mlast.res = Err("InvalidInput", t)
              /\ mlast.resolved = <<>>
              /\ n = 0

\* the send to the first resolved address failed and the one to the second succeeded
SendToManagerContractWitness ==
    /\ mlast.op = "send_to_manager"
    /\ dgram[mlast.sock].kind = "udp"
    /\ mlast.target.kind = "domain"
    /\ Len(mlast.tx) = 2
    /\ mlast.tx[1].res # Ok
    /\ mlast.tx[2].res = Ok
    /\ mlast.res = Ok

\* the sum of a byte count over the connections of instance i
ReadThrough(i) ==
    LET S[k \in 0..Len(conn)] ==
            IF k = 0 THEN 0 ELSE S[k - 1] + (IF conn[k].inst = i THEN conn[k].nread ELSE 0)
    IN S[Len(conn)]

ReadRaw(i) ==
    LET S[k \in 0..Len(conn)] ==
            IF k = 0 THEN 0 ELSE S[k - 1] + (IF conn[k].inst = i THEN conn[k].nraw ELSE 0)
    IN S[Len(conn)]

Written(i) ==
    LET S[k \in 0..Len(conn)] ==
            IF k = 0 THEN 0 ELSE S[k - 1] + (IF conn[k].inst = i THEN conn[k].nwritten ELSE 0)
    IN S[Len(conn)]

\* C16 as stated: the rx and tx totals of an instance are the bytes read from
\* and written to the client sockets of its connections.
FlowCountsEveryByte ==
    \A i \in Inst :
        /\ flow[FlowOf(i)].rx = ReadThrough(i) + ReadRaw(i)
        /\ flow[FlowOf(i)].tx = Written(i)

\* C16: the counters of an instance never decrease, and after every step
\* its rx total is the sum of the bytes its connections read through their
\* TcpMonStream and its tx total the sum of the bytes they wrote through it,
\* whatever the interleaving; the bytes a held connection reads and discards
\* on the raw socket are in no counter.
FlowAccounting ==
    [][\A i \in Inst :
          /\ flow'[FlowOf(i)].rx >= flow[FlowOf(i)].rx
          /\ flow'[FlowOf(i)].tx >= flow[FlowOf(i)].tx
          /\ flow'[FlowOf(i)].rx = ReadThrough(i)'
          /\ flow'[FlowOf(i)].tx = Written(i)']_vars

\* two connections of one instance are open at once and both have read from
\* their clients
FlowAccountingWitness ==
    \E c \in Conns, d \in Conns :
        /\ c < d
        /\ conn[c].inst = conn[d].inst
        /\ conn[c].pc # "done" /\ conn[d].pc # "done"
        /\ conn[c].nread > 0 /\ conn[d].nread > 0
        /\ flow[FlowOf(conn[c].inst)].rx = conn[c].nread + conn[d].nread

\* the place of a connection in the order Accepted (1), Handshaking (2),
\* AddressDecoding (3), ACLCheck (4), Resolving (5), OutboundConnect (6),
\* Relaying (7), Closed (8). The cipher stream is layered but has not taken the
\* client's salt in Handshaking; the hold is the defensive branch of
\* AddressDecoding; the local bind address is looked up on the way out of
\* ACLCheck; a socket the inbound ACL dropped is closed.
Rank(cn) ==
    CASE cn.pc = "accepted" -> 1
      [] cn.pc = "read_addr" -> IF cn.salted THEN 3 ELSE 2
      [] cn.pc = "hold" -> 3
      [] cn.pc \in {"acl", "bind"} -> 4
      [] cn.pc = "resolve" -> 5
      [] cn.pc = "connect" -> 6
      [] cn.pc = "relay" -> 7
      [] OTHER -> 8

\* C19: a connection starts Accepted, or Closed when the inbound ACL drops
\* it; no step takes it to an earlier state; Resolving is entered only for a
\* domain target and at most once, also when the connect is tried on further
\* resolved addresses; a Closed connection never changes.
StateMonotonic ==
    [][/\ \A c \in Conns :
             /\ Rank(conn'[c]) >= Rank(conn[c])
             /\ Rank(conn[c]) = 8 => conn'[c] = conn[c]
             /\ conn'[c].pc = "resolve" => (conn'[c].target.kind = "domain" /\ conn'[c].lookups = 0)
             /\ conn'[c].lookups <= 1
             /\ (conn[c].pc = "connect" /\ Len(conn'[c].tried) > Len(conn[c].tried)) =>
                    (conn'[c].pc \in {"connect", "relay", "done"} /\ conn'[c].addrs = conn[c].addrs)
       /\ \A c \in 1..Len(conn') : c > Len(conn) => Rank(conn'[c]) \in {1, 8}]_vars

\* a connection went through every state: its domain target was resolved, the
\* first connect failed and the second succeeded, it relayed and is closed
StateMonotonicWitness ==
    \E c \in Conns :
        /\ conn[c].target.kind = "domain"
        /\ conn[c].lookups = 1
        /\ Len(conn[c].tried) = 2
        /\ conn[c].tried[2].res = Ok
        /\ conn[c].rout # <<>>
        /\ conn[c].pc = "done"

\* C20: the client has been written to only by a connection whose outbound
\* stream was established; before Relaying, and on every path that ends
\* before it, nothing has been written to the client, and what is written
\* first is the server's salt.
SilenceBeforeRelay ==
    \A c \in Conns :
        /\ Rank(conn[c]) < 7 => (conn[c].cout = <<>> /\ conn[c].nwritten = 0)
        /\ conn[c].remote = NoAddr => (conn[c].cout = <<>> /\ conn[c].nwritten = 0)
        /\ conn[c].cout # <<>> =>
              /\ conn[c].pc \in {"relay", "done"}
              /\ conn[c].cout[1] = Salt(Key(conn[c].inst))
              /\ conn[c].rsent > 0

\* a connection ended after the connect to every resolved address failed:
\* its client had sent its salt and its request and was written nothing
SilenceBeforeRelayWitness ==
    \E c \in Conns :
        /\ conn[c].pc = "done" /\ IsErr(conn[c].res)
        /\ Len(conn[c].tried) >= 2 /\ AllFailed(conn[c].tried)
        /\ conn[c].csent > 0 /\ conn[c].nread > 0
        /\ conn[c].cout = <<>>

\* the stages of handle_client after the address was read
AfterAddress == {"acl", "bind", "resolve", "connect", "relay"}

\* C21: the hold is entered by every failure of the address read (a chunk that
\* does not open, a malformed address, the client's end of stream, the idle
\* timeout) and by nothing else; a failure in a later stage returns at once,
\* with the socket closed and nothing read in a hold. In the hold the reads are
\* on the raw socket: they are not counted by the monitor, and the handler
\* leaves the hold only by returning the decode error once the client has
\* closed and everything it sent is drained.
HoldEntryAndDuration ==
    [][\A c \in Conns :
          LET old == conn[c]
              new == conn'[c]
          IN
          /\ (old.decodeErr = Running /\ new.decodeErr # Running) =>
                 /\ old.pc = "read_addr" /\ new.pc = "hold"
                 /\ new.copen /\ new.res = Running
          /\ (old.pc = "read_addr" /\ new.pc # "read_addr") =>
                 \/ new.pc = "hold" /\ new.decodeErr # Running
                 \/ new.pc = "acl" /\ new.decodeErr = Running
          /\ (new.pc = "hold" /\ old.pc # "hold") => old.pc = "read_addr"
          /\ (old.pc \in AfterAddress /\ new.pc \notin AfterAddress) =>
                 /\ new.pc = "done" /\ ~new.copen
                 /\ new.decodeErr = Running /\ new.nraw = 0
          /\ old.pc = "hold" =>
                 /\ new.decodeErr = old.decodeErr
                 /\ new.nread = old.nread /\ new.nwritten = old.nwritten
                 /\ Len(new.cin) < Len(old.cin) => new.nraw > old.nraw
                 /\ new.pc # "hold" =>
                        /\ old.cfin /\ old.cin = <<>>
                        /\ new.pc = "done" /\ new.res = old.decodeErr]_vars

\* a client stayed silent until the idle timeout, was held, then sent its
\* request, which was read on the raw socket, and closed; only then did the
\* handler return, with the timeout error
HoldEntryAndDurationWitness ==
    \E c \in Conns :
        /\ conn[c].decodeErr.kind = "timedout"
        /\ conn[c].csent > 0 /\ conn[c].nraw > 0 /\ conn[c].nread = 0
        /\ conn[c].cfin
        /\ conn[c].pc = "done" /\ conn[c].res = conn[c].decodeErr

\* C22: run binds the instances one at a time in configuration order; the
\* accept loops are started together, once every instance is bound, and an
\* accept returns (with a socket or with an error) only then; when the resolve
\* or the bind of instance k fails, run returns that error, no connection was
\* accepted or handled, no accept loop has run and the listeners of the
\* instances before k are released.
BindAllBeforeAccept ==
    [][LET k == Cardinality(listeners) + 1 IN
       /\ (listeners' # listeners /\ listeners' # {}) =>
              /\ runpc = "binding"
              /\ k \notin listeners /\ listeners' = listeners \cup {k}
              /\ listeners' = 1..k
       /\ \A i \in Inst :
              (acc[i] = "new" /\ acc'[i] # "new") =>
                 \/ listeners' = Inst /\ \A j \in Inst : acc'[j] = "accept"
                 \/ listeners' = {} /\ \A j \in Inst : acc'[j] = "dropped"
       /\ (Len(conn') > Len(conn) \/ nfail' > nfail) =>
              /\ listeners = Inst /\ runpc = "serving"
              /\ \A i \in Inst : acc[i] # "new"
       /\ (runpc = "binding" /\ runpc' = "returned") =>
              /\ listeners = 1..(k - 1) /\ listeners' = {}
              /\ runres'.kind \in {"resolve", "bind"} /\ runres'.at = ExternalAddr(k)
              /\ conn = <<>> /\ conn' = <<>> /\ nfail' = 0
              /\ \A i \in Inst : acc[i] = "new" /\ acc'[i] = "dropped"]_vars

\* the external address of the last instance did not resolve after the
\* instances before it were bound: run has returned, nothing was accepted and
\* no listener is left
BindAllBeforeAcceptWitness ==
    /\ NumInst > 1
    /\ runpc = "returned"
    /\ runres = Err("resolve", ExternalAddr(NumInst))
    /\ listeners = {} /\ conn = <<>>
    /\ \A i \in Inst : acc[i] = "dropped"

====
